---- MODULE Spec2Model ----
(***************************************************************************)
(* MineChat command-line client (src/src/main.rs).                         *)
(*                                                                         *)
(* One process invocation is one run: main parses the arguments and runs   *)
(* either handle_link (link handshake, writes the identity store) or       *)
(* handle_connect (reconnect handshake, then the repl multiplexer).  The   *)
(* identity store (servers.json) is the only state that outlives a run.    *)
(* The server, the user at the terminal and the interrupt signal are the   *)
(* environment.  Every await of the program is a step boundary; what the   *)
(* code does between two awaits is one action.                             *)
(*                                                                         *)
(* File-system failures of load_config / save_config are not modelled:     *)
(* the store is always readable and writable.                              *)
(*                                                                         *)
(* A handler of repl that writes is two steps: StartWrite, at which the    *)
(* branch of select! is taken, and ReplWrite, at which write_all ends;     *)
(* the environment goes on in between.  The futures of select! are made    *)
(* anew at each turn of the loop: an interrupt that no ctrl_c future was   *)
(* waiting for is not seen by the next one, and a read_line that is        *)
(* dropped has kept what it took of an unfinished line.                    *)
(*                                                                         *)
(* Specifications:                                                         *)
(*   Spec        run after run from an empty store, lines arrive whole;    *)
(*   SpecSession one run from a linked store, lines arrive whole;          *)
(*   SpecWire    one run, lines may arrive in two pieces, and the server   *)
(*               also sends the envelopes repl ignores;                    *)
(*   SpecFair    one run under the fairness of select!;                    *)
(*   SpecStore   one run from a store with two entries for an address;     *)
(*   SpecCodec   an envelope through serde_json, character by character.   *)
(***************************************************************************)
EXTENDS Naturals, Sequences, FiniteSets

\* ------------------------------------------------------------------ bounds

\* Lines the server has written that the client has not read yet.
MaxInFlight == 2
\* One session, followed closely: lines the server writes on the connection,
\* and lines the user types.
MaxServerFrames == 4
MaxUserLines == 2
\* Run after run of the program: the same, for each run.
RunServerFrames == 2
RunUserLines == 1
\* One session in which lines may arrive in two pieces.
WireServerFrames == 3
WireUserLines == 2

\* ------------------------------------------------------------- input sets

Addresses == {"a", "b"}
Uuids == {"u1", "u2"}
Codes == {"c1", "c2"}
AckMessages == {"bad code", "expired"}
Texts == {"hi", "yo"}

\* Option<T> as a sequence of length at most one.
None == << >>
Some(x) == << x >>

\* ------------------------------------------------------------- MineChatMessage

Auth(client_uuid, link_code) ==
    [type |-> "AUTH", client_uuid |-> client_uuid, link_code |-> link_code]

AuthAckOf(status, message, minecraft_uuid, username) ==
    [type |-> "AUTH_ACK", status |-> status, message |-> message,
     minecraft_uuid |-> minecraft_uuid, username |-> username]

\* An AuthAck without the two optional fields.
AuthAck(status, message) == AuthAckOf(status, message, << >>, << >>)

Chat(message) ==
    [type |-> "CHAT", message |-> message]

Broadcast(from, message) ==
    [type |-> "BROADCAST", from |-> from, message |-> message]

Disconnect(reason) ==
    [type |-> "DISCONNECT", reason |-> reason]

\* ------------------------------------------------------------- wire lines

\* A line on the wire: the JSON text of a message, or text serde_json rejects.
\* The empty line is what read_line leaves in the buffer at end of stream.
JsonLine(msg) == [text |-> "json", msg |-> Some(msg)]
GarbageLine == [text |-> "garbage", msg |-> None]
EmptyLine == [text |-> "", msg |-> None]

\* What can arrive apart: the JSON text of a message without its newline,
\* and the newline.
JsonText(msg) == [text |-> "json, no newline", msg |-> Some(msg)]
Newline == [text |-> "newline", msg |-> None]

\* What has arrived ends a line.
Terminated(chunk) == chunk.text # "json, no newline"

\* The line read_line completes with when chunk arrives, the future having
\* taken the chunks of taken before: a text and its newline are the line of
\* the message, and texts run together are a line that does not decode.
read_line(taken, chunk) ==
    IF taken = << >> THEN chunk
    ELSE IF Len(taken) = 1 /\ chunk = Newline THEN JsonLine(taken[1].msg[1])
    ELSE GarbageLine

\* serde_json::from_str::<MineChatMessage>: Ok(msg) as Some(msg), Err as None.
from_str(line) == IF line.text = "json" THEN line.msg ELSE None

\* What a server may write first on a connection, and afterwards.
FirstFrames ==
    {JsonLine(AuthAck("success", "welcome"))}
    \cup {JsonLine(AuthAck("failure", m)) : m \in AckMessages}
    \cup {JsonLine(Broadcast("Bob", "hi")), GarbageLine}

SessionFrames ==
    {JsonLine(Broadcast("Bob", t)) : t \in Texts}
    \cup {JsonLine(Disconnect("server shutdown")),
          JsonLine(AuthAck("success", "welcome")),
          GarbageLine}

\* Envelopes a client sends, which a server should not send.
OtherFrames == {JsonLine(Auth("u2", "")), JsonLine(Chat("hi"))}

\* The envelopes whose line the server may send in two pieces.
SplitMessages == {Broadcast("Bob", t) : t \in Texts}

\* ------------------------------------------------------------- user lines

\* A line of terminal input, as characters, with its line terminator.
UserLines ==
    { << "h", "i", "\n" >>,
      << " ", "y", "o", " ", "\n" >>,
      << "/", "e", "x", "i", "t", "\n" >> }

IsSpace(c) == c \in {" ", "\n", "\t", "\r"}

RECURSIVE TrimStart(_)
TrimStart(s) ==
    IF s # << >> /\ IsSpace(Head(s)) THEN TrimStart(Tail(s)) ELSE s

RECURSIVE TrimEnd(_)
TrimEnd(s) ==
    IF s # << >> /\ IsSpace(s[Len(s)])
    THEN TrimEnd(SubSeq(s, 1, Len(s) - 1))
    ELSE s

\* str::trim
trim(s) == TrimEnd(TrimStart(s))

ExitCommand == << "/", "e", "x", "i", "t" >>

\* What has been typed ends a line.
EndsLine(chunk) == chunk # << >> /\ chunk[Len(chunk)] = "\n"

\* ------------------------------------------------------------- codec

\* The strings of a payload, as characters: with a newline, a quote, a
\* backslash, and a backslash before an n.
CodecStrings ==
    { << >>, << "a" >>, << "\n" >>, << "a", "\n", "b" >>, << "\"" >>,
      << "\\", "n" >>, << "\\" >> }

\* Option<String>
CodecOptions == {None} \cup {Some(s) : s \in {<< "a" >>, << "\n" >>}}

\* The envelopes that are put through the codec.
CodecEnvelopes ==
    {Auth(u, c) : u \in CodecStrings, c \in CodecStrings}
    \cup {AuthAckOf(s, m, mu, un) :
            s \in {<< "a" >>, << "\n" >>}, m \in CodecStrings,
            mu \in CodecOptions, un \in CodecOptions}
    \cup {Chat(m) : m \in CodecStrings}
    \cup {Broadcast(f, m) : f \in CodecStrings, m \in CodecStrings}
    \cup {Disconnect(r) : r \in CodecStrings}

\* The fields of the payload of each variant, in the order of the struct,
\* each a String ("str") or an Option<String> ("opt").
PayloadFields(type) ==
    CASE type = "AUTH" -> << << "client_uuid", "str" >>, << "link_code", "str" >> >>
      [] type = "AUTH_ACK" -> << << "status", "str" >>, << "message", "str" >>,
                                 << "minecraft_uuid", "opt" >>,
                                 << "username", "opt" >> >>
      [] type = "CHAT" -> << << "message", "str" >> >>
      [] type = "BROADCAST" -> << << "from", "str" >>, << "message", "str" >> >>
      [] type = "DISCONNECT" -> << << "reason", "str" >> >>

Types == {"AUTH", "AUTH_ACK", "CHAT", "BROADCAST", "DISCONNECT"}

\* Faulty variant of EscapeChar: the character is written as it is.
EscapeCharRaw(c) == << c >>

\* serde_json writes a quote, a backslash and a control character of a
\* string with a backslash before.
EscapeChar(c) ==
    IF c = "\n" THEN << "\\", "n" >>
    ELSE IF c = "\"" THEN << "\\", "\"" >>
    ELSE IF c = "\\" THEN << "\\", "\\" >>
    ELSE << c >>

RECURSIVE Escape(_)
Escape(s) ==
    IF s = << >> THEN << >> ELSE EscapeChar(Head(s)) \o Escape(Tail(s))

\* A string, and an Option<String>, in JSON.
StrLit(s) == << "\"" >> \o Escape(s) \o << "\"" >>
OptLit(o) == IF o = None THEN << "null" >> ELSE StrLit(o[1])

\* The fields of a payload from the i-th on, with commas between.
RECURSIVE FieldsText(_, _, _)
FieldsText(msg, fields, i) ==
    IF i > Len(fields) THEN << >>
    ELSE (IF i > 1 THEN << "," >> ELSE << >>)
         \o << fields[i][1], ":" >>
         \o (IF fields[i][2] = "str" THEN StrLit(msg[fields[i][1]])
             ELSE OptLit(msg[fields[i][1]]))
         \o FieldsText(msg, fields, i + 1)

\* serde_json::to_string of a MineChatMessage: the tag, then the payload.
to_string(msg) ==
    << "{", "type", ":", msg.type, ",", "payload", ":", "{" >>
    \o FieldsText(msg, PayloadFields(msg.type), 1)
    \o << "}", "}" >>

\* What send_message writes: the JSON text and a newline.
Encoded(msg) == to_string(msg) \o << "\n" >>

\* A parse that has failed.
Fail == [ok |-> FALSE, val |-> << >>, next |-> 0]

\* The characters of a JSON string from the i-th of t up to its closing
\* quote, the escapes undone; a control character in a string is an error.
RECURSIVE Scan(_, _, _)
Scan(t, i, acc) ==
    IF i > Len(t) THEN Fail
    ELSE IF t[i] = "\"" THEN [ok |-> TRUE, val |-> acc, next |-> i + 1]
    ELSE IF t[i] = "\\"
    THEN IF i + 1 > Len(t) THEN Fail
         ELSE IF t[i + 1] = "n" THEN Scan(t, i + 2, Append(acc, "\n"))
         ELSE IF t[i + 1] \in {"\"", "\\"}
         THEN Scan(t, i + 2, Append(acc, t[i + 1]))
         ELSE Fail
    ELSE IF t[i] = "\n" THEN Fail
    ELSE Scan(t, i + 1, Append(acc, t[i]))

\* A String, or an Option<String>, at the i-th of t.
ParseValue(t, i, kind) ==
    IF i > Len(t) THEN Fail
    ELSE IF kind = "opt" /\ t[i] = "null"
    THEN [ok |-> TRUE, val |-> None, next |-> i + 1]
    ELSE IF t[i] = "\""
    THEN LET r == Scan(t, i + 1, << >>) IN
           IF r.ok /\ kind = "opt" THEN [r EXCEPT !.val = Some(r.val)] ELSE r
    ELSE Fail

\* The fields of a payload from the j-th on, at the i-th of t.
RECURSIVE ParseFields(_, _, _, _, _)
ParseFields(t, i, fields, j, vals) ==
    IF j > Len(fields) THEN [ok |-> TRUE, val |-> vals, next |-> i]
    ELSE IF j > 1 /\ (i > Len(t) \/ t[i] # ",") THEN Fail
    ELSE LET k == IF j > 1 THEN i + 1 ELSE i IN
           IF k + 1 > Len(t) \/ t[k] # fields[j][1] \/ t[k + 1] # ":"
           THEN Fail
           ELSE LET r == ParseValue(t, k + 2, fields[j][2]) IN
                  IF r.ok
                  THEN ParseFields(t, r.next, fields, j + 1,
                                   Append(vals, r.val))
                  ELSE Fail

\* The envelope of a tag and the values of its payload.
Build(type, vals) ==
    CASE type = "AUTH" -> Auth(vals[1], vals[2])
      [] type = "AUTH_ACK" -> AuthAckOf(vals[1], vals[2], vals[3], vals[4])
      [] type = "CHAT" -> Chat(vals[1])
      [] type = "BROADCAST" -> Broadcast(vals[1], vals[2])
      [] type = "DISCONNECT" -> Disconnect(vals[1])

\* serde_json::from_str::<MineChatMessage> of the characters of a line:
\* Ok(msg) as Some(msg), Err as None.  White space may follow the value.
from_json(t) ==
    IF \/ Len(t) < 8
       \/ SubSeq(t, 1, 3) # << "{", "type", ":" >>
       \/ t[4] \notin Types
       \/ SubSeq(t, 5, 8) # << ",", "payload", ":", "{" >>
    THEN None
    ELSE LET r == ParseFields(t, 9, PayloadFields(t[4]), 1, << >>) IN
           IF ~r.ok THEN None
           ELSE IF r.next + 1 > Len(t) \/ t[r.next] # "}" \/ t[r.next + 1] # "}"
           THEN None
           ELSE IF \E k \in (r.next + 2)..Len(t) : ~IsSpace(t[k]) THEN None
           ELSE Some(Build(t[4], r.val))

\* No envelope is on its way through the codec.
NoCodec == [stage |-> "none", msg |-> None, line |-> << >>, back |-> None]

\* ------------------------------------------------------------- results

Running == [kind |-> "running", msg |-> ""]
Ok == [kind |-> "Ok", msg |-> ""]
Err(kind, msg) == [kind |-> kind, msg |-> msg]

\* ------------------------------------------------------------- state

VARIABLES
    config,        \* servers.json: the list of ServerEntry
    pc,            \* where the process is
    args,          \* Args: server, link
    client_uuid,   \* the uuid this run sends in Auth (None before it is known)
    connects,      \* TcpStream::connect calls of this run
    open,          \* the connection is established
    inbound,       \* lines written by the server, not yet read by the client
    nframes,       \* lines the server has written on this connection
    peer_closed,   \* the server has closed its side
    sent,          \* write attempts of the client, in order, each with its outcome
    display,       \* lines printed on stdout by println!
    stdin,         \* lines typed by the user, not yet read
    ntyped,        \* lines the user has typed in this run
    typed,         \* the lines the user has typed in this run, in order
    stdin_eof,     \* the terminal input has ended
    interrupt,     \* an interrupt signal is pending
    last,          \* the event on which repl returned ("none": it has not)
    seen,          \* the lines read from the connection in this run, in order
    pending,       \* the envelope a handler of repl is writing, and for which event
    msg_buffer,    \* what the pending read_line of the connection has taken
    buffer,        \* what the pending read_line of the terminal has taken
    midline,       \* the server has written a line's text, not yet its newline
    typing,        \* the rest of the line the user is typing
    store0,        \* the store as it was when this run began
    store_ops,     \* the calls of load_config and save_config in this run
    result,        \* what main got back from handle_link / handle_connect
    limits,        \* what the environment does at most (fixed by Init)
    codec          \* an envelope on its way through send_message and from_str

replVars == << pending, msg_buffer, buffer >>
procVars == << pc, args, client_uuid, connects, open, sent, display, last,
              seen, store0, store_ops, result, replVars >>
netVars == << inbound, nframes, peer_closed, midline >>
userVars == << stdin, ntyped, typed, stdin_eof, interrupt, typing >>
vars == << config, procVars, netVars, userVars, limits, codec >>

\* ------------------------------------------------------------- identity store

\* load_config: the entries of servers.json (no file: no entries).
load_config == config

\* config.servers.retain(|e| e.address != server_addr)
retain(servers, addr) == SelectSeq(servers, LAMBDA e : e.address # addr)

\* Faulty variant of linked: the new entry is pushed, the old ones all kept.
linked_keep_all(servers, addr, uuid) ==
    Append(servers, [address |-> addr, uuid |-> uuid])

\* The store handle_link saves after a successful link.
linked(servers, addr, uuid) ==
    Append(retain(servers, addr), [address |-> addr, uuid |-> uuid])

\* config.servers.iter().find(|e| e.address == server_addr)
find(servers, addr) ==
    LET hits == {i \in 1..Len(servers) : servers[i].address = addr}
    IN  IF hits = {} THEN None
        ELSE Some(servers[CHOOSE i \in hits : \A j \in hits : i <= j])

\* ------------------------------------------------------------- transport

\* send_message: one write attempt, which the transport completes or fails.
send_message(msg, ok) == Append(sent, [msg |-> msg, ok |-> ok])

\* read_line on the connection can complete: a line has arrived, or the
\* stream has ended.
CanRead == inbound # << >> \/ peer_closed

\* The line read_line yields (the empty line at end of stream).
NextLine == IF inbound # << >> THEN Head(inbound) ELSE EmptyLine

\* A handler returns r to main and the process ends: the stream is dropped
\* and the terminal is left.
Return(r) ==
    /\ result' = r
    /\ pc' = "done"
    /\ open' = FALSE
    /\ inbound' = << >>
    /\ nframes' = 0
    /\ peer_closed' = FALSE
    /\ stdin' = << >>
    /\ ntyped' = 0
    /\ UNCHANGED typed
    /\ stdin_eof' = FALSE
    /\ interrupt' = FALSE
    /\ pending' = None
    /\ msg_buffer' = None
    /\ buffer' = << >>
    /\ midline' = FALSE
    /\ typing' = << >>

\* ------------------------------------------------------------- initial state

InitRun ==
    /\ pc = "start"
    /\ args = [server |-> "a", link |-> None]
    /\ client_uuid = None
    /\ connects = 0
    /\ open = FALSE
    /\ inbound = << >>
    /\ nframes = 0
    /\ peer_closed = FALSE
    /\ sent = << >>
    /\ display = << >>
    /\ stdin = << >>
    /\ ntyped = 0
    /\ typed = << >>
    /\ stdin_eof = FALSE
    /\ interrupt = FALSE
    /\ last = "none"
    /\ seen = << >>
    /\ store_ops = << >>
    /\ result = Running
    /\ pending = None
    /\ msg_buffer = None
    /\ buffer = << >>
    /\ midline = FALSE
    /\ typing = << >>

\* The program is run again and again, from an empty store.
Init ==
    /\ config = << >>
    /\ store0 = config
    /\ limits = [again |-> TRUE, frames |-> RunServerFrames,
                 lines |-> RunUserLines]
    /\ codec = NoCodec
    /\ InitRun

\* The program is run once, with a store that an earlier link has written.
InitSession ==
    /\ config = << [address |-> "a", uuid |-> "u1"] >>
    /\ store0 = config
    /\ limits = [again |-> FALSE, frames |-> MaxServerFrames,
                 lines |-> MaxUserLines]
    /\ codec = NoCodec
    /\ InitRun

\* The program is run once on a linked store, with a server and a user
\* whose lines may arrive in pieces.
InitWire ==
    /\ config = << [address |-> "a", uuid |-> "u1"] >>
    /\ store0 = config
    /\ limits = [again |-> FALSE, frames |-> WireServerFrames,
                 lines |-> WireUserLines]
    /\ codec = NoCodec
    /\ InitRun

\* The program is run once on a linked store, with the small environment.
InitFair ==
    /\ config = << [address |-> "a", uuid |-> "u1"] >>
    /\ store0 = config
    /\ limits = [again |-> FALSE, frames |-> RunServerFrames,
                 lines |-> RunUserLines]
    /\ codec = NoCodec
    /\ InitRun

\* An envelope is handed to send_message, and no program runs.
InitCodec ==
    /\ config = << >>
    /\ store0 = config
    /\ limits = [again |-> FALSE, frames |-> RunServerFrames,
                 lines |-> RunUserLines]
    /\ codec \in {[stage |-> "value", msg |-> Some(v), line |-> << >>,
                   back |-> None] : v \in CodecEnvelopes}
    /\ InitRun

\* Stores with two entries for an address, as a servers.json written by
\* hand or by another program may hold (handle_link leaves no such store).
DuplicateStores ==
    { << [address |-> "a", uuid |-> "u1"], [address |-> "a", uuid |-> "u2"] >>,
      << [address |-> "a", uuid |-> "u2"], [address |-> "b", uuid |-> "u1"],
         [address |-> "a", uuid |-> "u1"] >> }

\* The program is run once on such a store.
InitStore ==
    /\ config \in DuplicateStores
    /\ store0 = config
    /\ limits = [again |-> FALSE, frames |-> RunServerFrames,
                 lines |-> RunUserLines]
    /\ codec = NoCodec
    /\ InitRun

\* ------------------------------------------------------------- main

\* A process is started with its arguments (a finished one is gone: every
\* state of the run but the store starts afresh).
Main(server, link) ==
    /\ pc = "start" \/ (pc = "done" /\ limits.again)
    /\ args' = [server |-> server, link |-> link]
    /\ pc' = IF link # None THEN "handle_link" ELSE "handle_connect"
    /\ client_uuid' = None
    /\ connects' = 0
    /\ open' = FALSE
    /\ inbound' = << >>
    /\ nframes' = 0
    /\ peer_closed' = FALSE
    /\ sent' = << >>
    /\ display' = << >>
    /\ stdin' = << >>
    /\ ntyped' = 0
    /\ typed' = << >>
    /\ stdin_eof' = FALSE
    /\ interrupt' = FALSE
    /\ last' = "none"
    /\ seen' = << >>
    /\ store0' = config
    /\ store_ops' = << >>
    /\ result' = Running
    /\ pending' = None
    /\ msg_buffer' = None
    /\ buffer' = << >>
    /\ midline' = FALSE
    /\ typing' = << >>
    /\ UNCHANGED << config, limits, codec >>

\* ------------------------------------------------------------- handshake

\* Faulty variant of is_success: any AuthAck is taken for a success.
is_success_any(payload) == payload.status \in {"success", "failure"}

\* payload.status == "success"
is_success(payload) == payload.status = "success"

\* Faulty variant of rejected: a fixed message replaces the server's.
rejected_fixed(payload) == Err("AuthFailed", "Unexpected response")

\* Err(MineChatError::AuthFailed(payload.message))
rejected(payload) == Err("AuthFailed", payload.message)

\* The Auth envelope of the link flow: the new uuid and the link code.
LinkAuth == Auth(client_uuid[1], args.link[1])

\* Faulty variant of ConnectAuth: the two fields of the payload are swapped.
ConnectAuthSwapped == Auth("", client_uuid[1])

\* The Auth envelope of the reconnect flow: the stored uuid, no link code.
ConnectAuth == Auth(client_uuid[1], "")

\* ------------------------------------------------------------- handle_link

\* Uuid::new_v4 and TcpStream::connect.
LinkConnect(uuid, ok) ==
    /\ pc = "handle_link"
    /\ client_uuid' = Some(uuid)
    /\ connects' = connects + 1
    /\ IF ok
       THEN /\ open' = TRUE
            /\ pc' = "link_auth"
            /\ UNCHANGED << replVars, result, netVars, userVars >>
       ELSE Return(Err("Io", "connect"))
    /\ UNCHANGED << limits, codec, config, args, sent, display, last, seen, store0, store_ops >>

\* send_message of the Auth envelope with the link code.
LinkSendAuth(ok) ==
    /\ pc = "link_auth"
    /\ sent' = send_message(LinkAuth, ok)
    /\ IF ok
       THEN /\ pc' = "link_ack"
            /\ UNCHANGED << replVars, result, open, netVars, userVars >>
       ELSE Return(Err("Io", "write"))
    /\ UNCHANGED << limits, codec, config, args, client_uuid, connects, display, last,
                    seen, store0, store_ops >>

\* receive_message and the match on it; on success the store is rewritten.
LinkReceiveAck ==
    /\ pc = "link_ack"
    /\ CanRead
    /\ seen' = IF inbound # << >> THEN Append(seen, Head(inbound)) ELSE seen
    /\ LET msg == from_str(NextLine) IN
         IF msg = None
         THEN /\ Return(Err("Serde", ""))
              /\ UNCHANGED << config, store_ops >>
         ELSE IF msg[1].type = "AUTH_ACK"
         THEN IF is_success(msg[1])
              THEN /\ config' = linked(load_config, args.server, client_uuid[1])
                   /\ store_ops' = store_ops \o << "load", "save" >>
                   /\ Return(Ok)
              ELSE /\ Return(rejected(msg[1]))
                   /\ UNCHANGED << config, store_ops >>
         ELSE /\ Return(Err("AuthFailed", "Unexpected response"))
              /\ UNCHANGED << config, store_ops >>
    /\ UNCHANGED << limits, codec, args, client_uuid, connects, sent, display, last,
                    store0 >>

\* read_line of receive_message fails (the connection is reset).
LinkReceiveErr ==
    /\ pc = "link_ack"
    /\ Return(Err("Io", "read"))
    /\ UNCHANGED << limits, codec, config, args, client_uuid, connects, sent, display,
                    last, seen, store0, store_ops >>

\* ------------------------------------------------------------- handle_connect

\* Faulty variant of ConnectStart: the connection is opened before the lookup.
ConnectStartEager(ok) ==
    /\ pc = "handle_connect"
    /\ connects' = connects + 1
    /\ LET entry == find(load_config, args.server) IN
         IF ~ok
         THEN /\ Return(Err("Io", "connect"))
              /\ UNCHANGED client_uuid
         ELSE IF entry = None
         THEN /\ Return(Err("ServerNotLinked", ""))
              /\ UNCHANGED client_uuid
         ELSE /\ client_uuid' = Some(entry[1].uuid)
              /\ open' = TRUE
              /\ pc' = "connect_auth"
              /\ UNCHANGED << replVars, result, netVars, userVars >>
    /\ store_ops' = Append(store_ops, "load")
    /\ UNCHANGED << limits, codec, config, args, sent, display, last, seen, store0 >>

\* Faulty variant of ConnectStart: the store is saved again with the entry
\* found put last.
ConnectStartSaving(ok) ==
    /\ pc = "handle_connect"
    /\ LET entry == find(load_config, args.server) IN
         IF entry = None
         THEN /\ Return(Err("ServerNotLinked", ""))
              /\ UNCHANGED << client_uuid, connects, config >>
              /\ store_ops' = Append(store_ops, "load")
         ELSE /\ client_uuid' = Some(entry[1].uuid)
              /\ connects' = connects + 1
              /\ config' = linked(load_config, args.server, entry[1].uuid)
              /\ store_ops' = store_ops \o << "load", "save" >>
              /\ IF ok
                 THEN /\ open' = TRUE
                      /\ pc' = "connect_auth"
                      /\ UNCHANGED << replVars, result, netVars, userVars >>
                 ELSE Return(Err("Io", "connect"))
    /\ UNCHANGED << limits, codec, args, sent, display, last, seen, store0 >>

\* load_config, the lookup of the entry, and TcpStream::connect.
ConnectStart(ok) ==
    /\ pc = "handle_connect"
    /\ LET entry == find(load_config, args.server) IN
         IF entry = None
         THEN /\ Return(Err("ServerNotLinked", ""))
              /\ UNCHANGED << client_uuid, connects >>
         ELSE /\ client_uuid' = Some(entry[1].uuid)
              /\ connects' = connects + 1
              /\ IF ok
                 THEN /\ open' = TRUE
                      /\ pc' = "connect_auth"
                      /\ UNCHANGED << replVars, result, netVars, userVars >>
                 ELSE Return(Err("Io", "connect"))
    /\ store_ops' = Append(store_ops, "load")
    /\ UNCHANGED << limits, codec, config, args, sent, display, last, seen, store0 >>

\* send_message of the Auth envelope with the stored uuid and no link code.
ConnectSendAuth(ok) ==
    /\ pc = "connect_auth"
    /\ sent' = send_message(ConnectAuth, ok)
    /\ IF ok
       THEN /\ pc' = "connect_ack"
            /\ UNCHANGED << replVars, result, open, netVars, userVars >>
       ELSE Return(Err("Io", "write"))
    /\ UNCHANGED << limits, codec, config, args, client_uuid, connects, display, last,
                    seen, store0, store_ops >>

\* receive_message and the match on it; on success repl takes the stream
\* over with a new BufReader, and the k lines that the handshake's BufReader
\* had already taken from the socket go with the old one.
ConnectReceiveAck(k) ==
    /\ pc = "connect_ack"
    /\ CanRead
    /\ seen' = IF inbound # << >> THEN Append(seen, Head(inbound)) ELSE seen
    /\ LET msg == from_str(NextLine) IN
         IF msg = None
         THEN /\ k = 0
              /\ Return(Err("Serde", ""))
         ELSE IF msg[1].type = "AUTH_ACK"
         THEN IF is_success(msg[1])
              THEN /\ k < Len(inbound)
                   /\ inbound' = SubSeq(inbound, k + 2, Len(inbound))
                   /\ pc' = "repl"
                   /\ UNCHANGED << replVars, result, open, nframes,
                                   peer_closed, midline, userVars >>
              ELSE /\ k = 0
                   /\ Return(rejected(msg[1]))
         ELSE /\ k = 0
              /\ Return(Err("AuthFailed", "Unexpected response"))
    /\ UNCHANGED << limits, codec, config, args, client_uuid, connects, sent, display,
                    last, store0, store_ops >>

\* read_line of receive_message fails (the connection is reset).
ConnectReceiveErr ==
    /\ pc = "connect_ack"
    /\ Return(Err("Io", "read"))
    /\ UNCHANGED << limits, codec, config, args, client_uuid, connects, sent, display,
                    last, seen, store0, store_ops >>

\* ------------------------------------------------------------- repl

\* println!("[{}] {}", payload.from, payload.message)
BroadcastLine(payload) == << "[", payload.from, "] ", payload.message >>

\* println!("Disconnected: {}", payload.reason)
DisconnectLine(payload) == << "Disconnected: ", payload.reason >>

\* The Disconnect envelope of the three client-side exits.
ClientExit == Disconnect("Client exit")

\* Faulty variant of Waiting: the sources are also looked at while a
\* handler is writing.
WaitingOrWriting == pc \in {"repl", "repl_send"}

\* The loop is in select!, waiting on its three sources.
Waiting == pc = "repl"

\* The line is consumed and the loop goes round again.  The futures of the
\* other two branches were dropped when this one completed: what the
\* terminal's read_line had taken goes with it, and so does the signal the
\* ctrl_c future had been woken for.
NextTurn ==
    /\ inbound' = Tail(inbound)
    /\ msg_buffer' = None
    /\ buffer' = << >>
    /\ interrupt' = FALSE
    /\ UNCHANGED << last, pc, result, open, nframes, peer_closed, midline,
                    stdin, ntyped, typed, stdin_eof, typing, pending >>

\* Faulty variant of OnMalformed: the decode error ends the session.
OnMalformedFatal ==
    /\ last' = "inbound_err"
    /\ Return(Err("Serde", ""))
    /\ UNCHANGED << display, sent >>

\* if let Ok(msg) = serde_json::from_str(..) fails: nothing is done.
OnMalformed ==
    /\ NextTurn
    /\ UNCHANGED << display, sent >>

\* MineChatMessage::Broadcast { payload }
OnBroadcast(payload) ==
    /\ display' = Append(display, BroadcastLine(payload))
    /\ NextTurn
    /\ UNCHANGED sent

\* Faulty variant of OnDisconnect: the client answers with its own Disconnect.
OnDisconnectReply(payload) ==
    /\ display' = Append(display, DisconnectLine(payload))
    /\ sent' = send_message(ClientExit, TRUE)
    /\ last' = "disconnect"
    /\ Return(Ok)

\* MineChatMessage::Disconnect { payload }
OnDisconnect(payload) ==
    /\ display' = Append(display, DisconnectLine(payload))
    /\ last' = "disconnect"
    /\ Return(Ok)
    /\ UNCHANGED sent

\* Faulty variant of OnOther: the envelope is put on the screen.
OnOtherShown ==
    /\ display' = Append(display, << "Received message" >>)
    /\ NextTurn
    /\ UNCHANGED sent

\* _ => debug!(..): a line of the log, which is not the screen of println!.
OnOther ==
    /\ NextTurn
    /\ UNCHANGED << display, sent >>

\* First branch of select!, Ok(_): read_line has a whole line.
ReplInboundLine ==
    /\ Waiting
    /\ inbound # << >>
    /\ Terminated(Head(inbound))
    /\ LET line == read_line(msg_buffer, Head(inbound))
           msg == from_str(line)
       IN  /\ seen' = Append(seen, line)
           /\ IF msg = None THEN OnMalformed
              ELSE IF msg[1].type = "BROADCAST" THEN OnBroadcast(msg[1])
              ELSE IF msg[1].type = "DISCONNECT" THEN OnDisconnect(msg[1])
              ELSE OnOther
    /\ UNCHANGED << limits, codec, config, args, client_uuid, connects, store0, store_ops >>

\* First branch of select!, Ok(0): the server has closed the stream.
ReplInboundEof ==
    /\ Waiting
    /\ inbound = << >>
    /\ msg_buffer = None
    /\ peer_closed
    /\ last' = "inbound_eof"
    /\ Return(Ok)
    /\ UNCHANGED << limits, codec, config, args, client_uuid, connects, sent, display,
                    seen, store0, store_ops >>

\* First branch of select!, Err(e): the read fails.
ReplInboundErr ==
    /\ Waiting
    /\ last' = "inbound_err"
    /\ Return(Err("Io", "read"))
    /\ UNCHANGED << limits, codec, config, args, client_uuid, connects, sent, display,
                    seen, store0, store_ops >>

\* A handler of the terminal or of the signal starts send_message: the
\* futures of the other branches were dropped when its branch completed.
StartWrite(msg, event) ==
    /\ pending' = Some([msg |-> msg, event |-> event])
    /\ pc' = "repl_send"
    /\ msg_buffer' = None
    /\ buffer' = << >>
    /\ interrupt' = FALSE
    /\ UNCHANGED << last, result, open, netVars, ntyped, typed, stdin_eof, typing,
                    sent >>

\* Second branch of select!, n > 0: a line from the user, the quit command
\* or a chat message.
ReplStdinLine ==
    /\ Waiting
    /\ stdin # << >>
    /\ EndsLine(Head(stdin))
    /\ LET input == trim(buffer \o Head(stdin)) IN
         IF input = ExitCommand
         THEN StartWrite(ClientExit, "exit")
         ELSE StartWrite(Chat(input), "chat")
    /\ stdin' = Tail(stdin)
    /\ UNCHANGED << limits, codec, config, args, client_uuid, connects, display, seen,
                    store0, store_ops >>

\* Second branch of select!, n == 0: the terminal input has ended.
ReplStdinEof ==
    /\ Waiting
    /\ stdin = << >>
    /\ buffer = << >>
    /\ stdin_eof
    /\ StartWrite(ClientExit, "stdin_eof")
    /\ UNCHANGED << limits, codec, config, args, client_uuid, connects, display, seen,
                    store0, store_ops, stdin >>

\* Second branch of select!, result?: reading the terminal fails.
ReplStdinErr ==
    /\ Waiting
    /\ last' = "stdin_err"
    /\ Return(Err("Io", "stdin"))
    /\ UNCHANGED << limits, codec, config, args, client_uuid, connects, sent, display,
                    seen, store0, store_ops >>

\* Faulty variant of ReplCtrlC: the session ends with no word to the server.
ReplCtrlCQuiet ==
    /\ Waiting
    /\ interrupt
    /\ last' = "ctrl_c"
    /\ Return(Ok)
    /\ UNCHANGED << limits, codec, config, args, client_uuid, connects, sent, display,
                    seen, store0, store_ops >>

\* Third branch of select!: the interrupt signal.
ReplCtrlC ==
    /\ Waiting
    /\ interrupt
    /\ StartWrite(ClientExit, "ctrl_c")
    /\ UNCHANGED << limits, codec, config, args, client_uuid, connects, display, seen,
                    store0, store_ops, stdin >>

\* send_message of the handler completes or fails: after a chat message
\* that was written the loop goes round again, and after anything else repl
\* returns.
ReplWrite(ok) ==
    /\ pc = "repl_send"
    /\ sent' = send_message(pending[1].msg, ok)
    /\ IF ok /\ pending[1].event = "chat"
       THEN /\ pc' = "repl"
            /\ pending' = None
            /\ UNCHANGED << last, result, open, netVars, userVars, msg_buffer,
                            buffer >>
       ELSE /\ last' = pending[1].event
            /\ Return(IF ok THEN Ok ELSE Err("Io", "write"))
    /\ UNCHANGED << limits, codec, config, args, client_uuid, connects, display, seen,
                    store0, store_ops >>

\* The read_line of the connection is polled and takes what has arrived of
\* a line, its newline not among it: the future stays pending.
ReplPollInbound ==
    /\ Waiting
    /\ inbound # << >>
    /\ ~Terminated(Head(inbound))
    /\ msg_buffer' = Append(msg_buffer, Head(inbound))
    /\ inbound' = Tail(inbound)
    /\ UNCHANGED << limits, codec, config, pc, args, client_uuid, connects, open, sent,
                    display, last, seen, store0, store_ops, result, pending, buffer,
                    nframes, peer_closed, midline, userVars >>

\* The read_line of the terminal is polled and takes what has been typed of
\* a line, its newline not among it: the future stays pending.
ReplPollStdin ==
    /\ Waiting
    /\ stdin # << >>
    /\ ~EndsLine(Head(stdin))
    /\ buffer' = buffer \o Head(stdin)
    /\ stdin' = Tail(stdin)
    /\ UNCHANGED << limits, codec, config, pc, args, client_uuid, connects, open, sent,
                    display, last, seen, store0, store_ops, result, pending, msg_buffer,
                    netVars, ntyped, typed, stdin_eof, interrupt, typing >>

\* ------------------------------------------------------------- environment

\* The server writes a line, whole.
ServerSend(line) ==
    /\ open
    /\ pc # "done"
    /\ ~peer_closed
    /\ ~midline
    /\ nframes < limits.frames
    /\ Len(inbound) < MaxInFlight
    /\ line \in (IF nframes = 0 THEN FirstFrames
                 ELSE SessionFrames \cup OtherFrames)
    /\ inbound' = Append(inbound, line)
    /\ nframes' = nframes + 1
    /\ UNCHANGED << limits, codec, config, procVars, peer_closed, midline, userVars >>

\* The server writes the text of an envelope and not yet its newline (it
\* writes the two apart, or the transport delivers them apart).
ServerSendText(msg) ==
    /\ open
    /\ pc # "done"
    /\ ~peer_closed
    /\ ~midline
    /\ nframes \in 1..(limits.frames - 1)
    /\ Len(inbound) < MaxInFlight
    /\ inbound' = Append(inbound, JsonText(msg))
    /\ nframes' = nframes + 1
    /\ midline' = TRUE
    /\ UNCHANGED << limits, codec, config, procVars, peer_closed, userVars >>

\* The server writes the newline that ends the line.
ServerSendNewline ==
    /\ open
    /\ pc # "done"
    /\ ~peer_closed
    /\ midline
    /\ Len(inbound) < MaxInFlight
    /\ inbound' = Append(inbound, Newline)
    /\ midline' = FALSE
    /\ UNCHANGED << limits, codec, config, procVars, nframes, peer_closed, userVars >>

\* The server closes the connection, between two lines.
ServerClose ==
    /\ open
    /\ pc # "done"
    /\ ~peer_closed
    /\ ~midline
    /\ peer_closed' = TRUE
    /\ UNCHANGED << limits, codec, config, procVars, inbound, nframes, midline,
                    userVars >>

\* The user types a line (what is typed before repl runs is read by repl
\* all the same, so the typing is placed there).
UserType(line) ==
    /\ pc \in {"repl", "repl_send"}
    /\ ~stdin_eof
    /\ typing = << >>
    /\ ntyped < limits.lines
    /\ stdin' = Append(stdin, line)
    /\ ntyped' = ntyped + 1
    /\ typed' = Append(typed, line)
    /\ UNCHANGED << limits, codec, config, procVars, netVars, stdin_eof, interrupt,
                    typing >>

\* The first character of a line reaches the terminal's reader ahead of the
\* rest (input through a pipe, or a line flushed before its end).
UserTypeFirst(line) ==
    /\ pc \in {"repl", "repl_send"}
    /\ ~stdin_eof
    /\ typing = << >>
    /\ ntyped < limits.lines
    /\ stdin' = Append(stdin, << Head(line) >>)
    /\ typing' = Tail(line)
    /\ ntyped' = ntyped + 1
    /\ typed' = Append(typed, line)
    /\ UNCHANGED << limits, codec, config, procVars, netVars, stdin_eof, interrupt >>

\* The rest of the line follows.
UserTypeRest ==
    /\ pc \in {"repl", "repl_send"}
    /\ typing # << >>
    /\ stdin' = Append(stdin, typing)
    /\ typing' = << >>
    /\ UNCHANGED << limits, codec, config, procVars, netVars, ntyped, typed, stdin_eof,
                    interrupt >>

\* The user ends the input, between two lines.
UserEof ==
    /\ pc \in {"repl", "repl_send"}
    /\ ~stdin_eof
    /\ typing = << >>
    /\ stdin_eof' = TRUE
    /\ UNCHANGED << limits, codec, config, procVars, netVars, stdin, ntyped, typed, interrupt,
                    typing >>

\* The user interrupts the process while a ctrl_c future of select! listens
\* (a signal that comes while a handler is writing has no listener: the
\* handler installed by the first ctrl_c call takes it and nothing is told).
UserInterrupt ==
    /\ Waiting
    /\ ~interrupt
    /\ interrupt' = TRUE
    /\ UNCHANGED << limits, codec, config, procVars, netVars, stdin, ntyped, typed, stdin_eof,
                    typing >>

\* ------------------------------------------------------------- codec steps

\* send_message encodes the envelope.
CodecSend ==
    /\ codec.stage = "value"
    /\ codec' = [codec EXCEPT !.stage = "line", !.line = Encoded(codec.msg[1])]
    /\ UNCHANGED << config, procVars, netVars, userVars, limits >>

\* receive_message decodes the line.
CodecReceive ==
    /\ codec.stage = "line"
    /\ codec' = [codec EXCEPT !.stage = "back", !.back = from_json(codec.line)]
    /\ UNCHANGED << config, procVars, netVars, userVars, limits >>

\* ------------------------------------------------------------- specification

\* The program, with a server and a user whose lines arrive whole.
Next ==
    \/ \E server \in Addresses, link \in {None} \cup {Some(c) : c \in Codes} :
          Main(server, link)
    \/ \E uuid \in Uuids, ok \in BOOLEAN : LinkConnect(uuid, ok)
    \/ \E ok \in BOOLEAN : LinkSendAuth(ok)
    \/ LinkReceiveAck
    \/ LinkReceiveErr
    \/ \E ok \in BOOLEAN : ConnectStart(ok)
    \/ \E ok \in BOOLEAN : ConnectSendAuth(ok)
    \/ \E k \in 0..MaxInFlight : ConnectReceiveAck(k)
    \/ ConnectReceiveErr
    \/ ReplInboundLine
    \/ ReplInboundEof
    \/ ReplInboundErr
    \/ ReplStdinLine
    \/ ReplStdinEof
    \/ ReplStdinErr
    \/ ReplCtrlC
    \/ \E ok \in BOOLEAN : ReplWrite(ok)
    \/ \E line \in FirstFrames \cup SessionFrames : ServerSend(line)
    \/ ServerClose
    \/ \E line \in UserLines : UserType(line)
    \/ UserEof
    \/ UserInterrupt

\* The same, and lines that arrive in two pieces, and envelopes that no
\* server should send in a session.
NextWire ==
    \/ Next
    \/ ReplPollInbound
    \/ ReplPollStdin
    \/ \E line \in OtherFrames : ServerSend(line)
    \/ \E msg \in SplitMessages : ServerSendText(msg)
    \/ ServerSendNewline
    \/ \E line \in UserLines : UserTypeFirst(line)
    \/ UserTypeRest

Spec == Init /\ [][Next]_vars

SpecSession == InitSession /\ [][Next]_vars

SpecWire == InitWire /\ [][NextWire]_vars

\* What the scheduling of repl gives.  select! polls its branches in an
\* order drawn afresh at every turn, so a branch that is ready turn after
\* turn is taken in the end; the write of a handler is awaited alone.  The
\* server, the user and the failures of the transport owe nothing.
Fairness ==
    /\ SF_vars(ReplInboundLine)
    /\ SF_vars(ReplInboundEof)
    /\ SF_vars(ReplStdinLine)
    /\ SF_vars(ReplStdinEof)
    /\ SF_vars(ReplCtrlC)
    /\ WF_vars(\E ok \in BOOLEAN : ReplWrite(ok))

\* One run on a linked store, under that scheduling.
SpecFair == InitFair /\ [][Next]_vars /\ Fairness

SpecStore == InitStore /\ [][Next]_vars

\* An envelope goes through send_message and back through from_str.
NextCodec ==
    \/ CodecSend
    \/ CodecReceive

SpecCodec == InitCodec /\ [][NextCodec]_vars

\* ------------------------------------------------------------- properties

\* The events on which the client itself ends the session.
ClientExits == {"stdin_eof", "exit", "ctrl_c"}

\* Where the client has tried to send a Disconnect envelope.
Disconnects == {i \in 1..Len(sent) : sent[i].msg.type = "DISCONNECT"}

\* The lines repl has read (the first line of a connection is the
\* handshake's).
ReplSeen == SubSeq(seen, 2, Len(seen))

\* repl has been entered in this run.
ReplEntered == pc \in {"repl", "repl_send"} \/ last # "none"

IsBroadcastLine(line) ==
    /\ line.text = "json"
    /\ line.msg[1].type = "BROADCAST"

IsDisconnectLine(line) ==
    /\ line.text = "json"
    /\ line.msg[1].type = "DISCONNECT"

\* C1: when repl returns on the end of the terminal input, on /exit or on
\* the interrupt, its last write attempt is the Disconnect envelope with
\* reason "Client exit": it was attempted before returning and no frame
\* follows it.
C1_ClientExitSendsDisconnect ==
    last \in ClientExits =>
        /\ pc = "done"
        /\ sent # << >>
        /\ sent[Len(sent)].msg = [type |-> "DISCONNECT", reason |-> "Client exit"]
        /\ \A i \in 1..(Len(sent) - 1) : sent[i].msg.type # "DISCONNECT"

\* The user has chatted, then interrupted, and the Disconnect went out.
C1_Witness ==
    /\ pc = "done"
    /\ last = "ctrl_c"
    /\ Len(sent) = 3
    /\ sent[2].msg.type = "CHAT"
    /\ sent[3].msg.type = "DISCONNECT"
    /\ sent[3].ok

\* C2: when the write of the final Disconnect envelope fails, repl still
\* returns Ok: no error reaches the caller.
C2_FinalSendFailureAbsorbed ==
    (last \in ClientExits /\ pc = "done") => result = Ok

\* C3: the client tries to send at most one Disconnect envelope in a run;
\* and on a Disconnect from the server it returns at once, with no
\* Disconnect of its own and without writing anything.
C3_AtMostOne ==
    /\ Cardinality(Disconnects) <= 1
    /\ last = "disconnect" => (pc = "done" /\ Disconnects = {})

C3_NoReply ==
    (/\ pc = "repl"
     /\ Len(seen') = Len(seen) + 1
     /\ IsDisconnectLine(seen'[Len(seen')]))
    => (sent' = sent /\ pc' = "done" /\ last' = "disconnect")

C3_SingleDisconnect == [](C3_AtMostOne) /\ [][C3_NoReply]_vars

\* The user has chatted and then the server has ended the session.
C3_Witness ==
    /\ pc = "done"
    /\ last = "disconnect"
    /\ Len(sent) = 2
    /\ sent[2].msg.type = "CHAT"
    /\ display = << << "Disconnected: ", "server shutdown" >> >>

\* C4: when the server closes the stream without a Disconnect, repl prints
\* the reason "connection closed" as for a Disconnect envelope, and returns
\* without sending a Disconnect.
C4_EofShownAsDisconnect ==
    last = "inbound_eof" =>
        /\ pc = "done"
        /\ result = Ok
        /\ Disconnects = {}
        /\ display # << >>
        /\ display[Len(display)] = << "Disconnected: ", "connection closed" >>

\* What the lines read by repl put on the screen.
RECURSIVE Shown(_)
Shown(lines) ==
    IF lines = << >> THEN << >>
    ELSE LET line == Head(lines) IN
         (IF IsBroadcastLine(line)
          THEN << << "[", line.msg[1].from, "] ", line.msg[1].message >> >>
          ELSE IF IsDisconnectLine(line)
          THEN << << "Disconnected: ", line.msg[1].reason >> >>
          ELSE << >>)
         \o Shown(Tail(lines))

\* C5: a line that does not decode is dropped: repl goes on, prints nothing
\* and writes nothing; the screen shows the valid frames read before and
\* after it, each once and in the order read.
C5_ScreenIsValidFrames == display = Shown(ReplSeen)

C5_DropMalformed ==
    (/\ pc = "repl"
     /\ Len(seen') = Len(seen) + 1
     /\ from_str(seen'[Len(seen')]) = None)
    => /\ pc' = "repl"
       /\ result' = Running
       /\ last' = "none"
       /\ sent' = sent
       /\ display' = display
       /\ inbound' = Tail(inbound)

C5_MalformedIgnored == [](C5_ScreenIsValidFrames) /\ [][C5_DropMalformed]_vars

\* A malformed line between two broadcasts, both on the screen.
C5_Witness ==
    /\ pc = "repl"
    /\ Len(seen) = 4
    /\ IsBroadcastLine(seen[2])
    /\ from_str(seen[3]) = None
    /\ IsBroadcastLine(seen[4])
    /\ display = << << "[", "Bob", "] ", "hi" >>, << "[", "Bob", "] ", "yo" >> >>

\* The entries of a store for an address, and the others.
Count(servers, addr) ==
    Cardinality({i \in 1..Len(servers) : servers[i].address = addr})

Others(servers, addr) == SelectSeq(servers, LAMBDA e : e.address # addr)

Holds(servers, addr, uuid) ==
    \E i \in 1..Len(servers) : servers[i] = [address |-> addr, uuid |-> uuid]

IsAckLine(line, status) ==
    /\ line.text = "json"
    /\ line.msg[1].type = "AUTH_ACK"
    /\ line.msg[1].status = status

\* C6: a reconnect run whose store has no entry for the server address
\* ends with ServerNotLinked, and never opens a connection nor writes or
\* reads anything.
C6_NotLinkedNoNetwork ==
    (pc # "start" /\ args.link = None /\ Count(config, args.server) = 0) =>
        /\ connects = 0
        /\ ~open
        /\ sent = << >>
        /\ seen = << >>
        /\ pc \in {"handle_connect", "done"}
        /\ pc = "done" => result = [kind |-> "ServerNotLinked", msg |-> ""]

\* The store is linked to another server only.
C6_Witness ==
    /\ pc = "done"
    /\ args.link = None
    /\ config # << >>
    /\ Count(config, args.server) = 0
    /\ result.kind = "ServerNotLinked"

\* C7: in both flows, once the response read is an AuthAck with status
\* failure the handshake has ended with AuthFailed and the server's own
\* message, and the store is as it was when the run began.
C7_RejectionLeavesStore ==
    (seen # << >> /\ IsAckLine(seen[1], "failure")) =>
        /\ pc = "done"
        /\ ~ReplEntered
        /\ result = [kind |-> "AuthFailed", msg |-> seen[1].msg[1].message]
        /\ config = store0

\* A link attempt on a linked store is rejected.
C7_Witness ==
    /\ pc = "done"
    /\ args.link # None
    /\ store0 # << >>
    /\ Count(store0, args.server) = 1
    /\ seen # << >>
    /\ IsAckLine(seen[1], "failure")
    /\ result = [kind |-> "AuthFailed", msg |-> "expired"]

\* C8: after a successful link for an address the store has exactly one
\* entry for it, with the uuid the client sent in Auth; the entries of the
\* other addresses are as before; and no store that link runs produce from
\* the empty one has two entries for an address.
C8_LinkReplacesEntry ==
    /\ (pc = "done" /\ args.link # None /\ result = Ok) =>
           /\ Count(config, args.server) = 1
           /\ sent # << >>
           /\ sent[1].msg.type = "AUTH"
           /\ sent[1].msg.client_uuid = client_uuid[1]
           /\ Holds(config, args.server, sent[1].msg.client_uuid)
           /\ Others(config, args.server) = Others(store0, args.server)
    /\ \A a \in Addresses : Count(config, a) <= 1

\* A relink with a new uuid, beside the entry of another server.
C8_Witness ==
    /\ pc = "done"
    /\ args.link # None
    /\ result = Ok
    /\ Len(store0) = 2
    /\ store0[1].address = args.server
    /\ store0[1].uuid # client_uuid[1]
    /\ Len(config) = 2

\* Where the client has tried to send an Auth envelope.
Auths == {i \in 1..Len(sent) : sent[i].msg.type = "AUTH"}

\* C9: the only Auth envelope of a run is its first write; nothing is read
\* before it has been written; in the link flow it carries the link code of
\* the command line, in the reconnect flow no link code and the uuid the
\* store holds for the server address.
C9_OneAuthFirst ==
    /\ Auths \subseteq {1}
    /\ (seen # << >> \/ pc \in {"link_ack", "connect_ack", "repl"}) =>
           (Auths = {1} /\ sent[1].ok)
    /\ sent # << >> =>
           /\ sent[1].msg.type = "AUTH"
           /\ IF args.link # None
              THEN /\ sent[1].msg.link_code = args.link[1]
                   /\ sent[1].msg.client_uuid = client_uuid[1]
              ELSE /\ sent[1].msg.link_code = ""
                   /\ Holds(config, args.server, sent[1].msg.client_uuid)

\* A session on the second of two linked servers.
C9_Witness ==
    /\ pc = "repl"
    /\ Len(config) = 2
    /\ config[2].address = args.server
    /\ config[1].uuid # config[2].uuid
    /\ sent = << [msg |-> [type |-> "AUTH", client_uuid |-> config[2].uuid,
                           link_code |-> ""],
                  ok |-> TRUE] >>

\* C10: repl is entered only in a reconnect run whose first line read is an
\* AuthAck with status success; a run that has not entered repl has printed
\* nothing and written nothing but Auth, and when it is a reconnect run that
\* has ended, it has ended with an error.
C10_ReplOnlyAfterSuccess ==
    /\ ReplEntered =>
           /\ args.link = None
           /\ seen # << >>
           /\ IsAckLine(seen[1], "success")
           /\ sent # << >>
           /\ sent[1].ok
    /\ ~ReplEntered =>
           /\ display = << >>
           /\ \A i \in 1..Len(sent) : sent[i].msg.type = "AUTH"
           /\ (pc = "done" /\ args.link = None) =>
                  result.kind \in {"Io", "Serde", "AuthFailed", "ServerNotLinked"}

\* The server answers the reconnect with something that is no AuthAck.
C10_Witness ==
    /\ pc = "done"
    /\ args.link = None
    /\ ~ReplEntered
    /\ Len(seen) = 1
    /\ IsBroadcastLine(seen[1])
    /\ result = [kind |-> "AuthFailed", msg |-> "Unexpected response"]

\* The handshake of this run has ended without repl being entered.
HandshakeEnded == pc = "done" /\ ~ReplEntered

\* An envelope of another tag than AuthAck, read as the response, ends the
\* handshake with AuthFailed "Unexpected response": one connection, one
\* frame written, the store as it was.
C11_UnexpectedTagRejected ==
    (/\ seen # << >>
     /\ seen[1].text = "json"
     /\ seen[1].msg[1].type # "AUTH_ACK")
    => /\ HandshakeEnded
       /\ result = [kind |-> "AuthFailed", msg |-> "Unexpected response"]
       /\ connects = 1
       /\ Len(sent) = 1
       /\ config = store0

\* A handshake that has ended after Auth was written, with no line read and
\* no transport error, has found the stream closed: it ends as
\* ConnectionClosed, with one connection and one frame written.
C11_CloseIsConnectionClosed ==
    (/\ HandshakeEnded
     /\ sent # << >>
     /\ sent[1].ok
     /\ seen = << >>
     /\ result.kind # "Io")
    => /\ result.kind = "ConnectionClosed"
       /\ connects = 1
       /\ Len(sent) = 1
       /\ config = store0

\* The same, with the error the stream's end does give.
C11_CloseIsSerdeError ==
    (/\ HandshakeEnded
     /\ sent # << >>
     /\ sent[1].ok
     /\ seen = << >>
     /\ result.kind # "Io")
    => /\ result = [kind |-> "Serde", msg |-> ""]
       /\ connects = 1
       /\ Len(sent) = 1
       /\ config = store0

\* C11: while the handshake awaits the response, an envelope of any tag
\* other than AuthAck ends it with AuthFailed "Unexpected response", and the
\* close of the connection before a response ends it as ConnectionClosed;
\* both are final: no second connection and no further frame.
C11_HandshakeRejections ==
    /\ C11_UnexpectedTagRejected
    /\ C11_CloseIsConnectionClosed

\* The envelopes of the write attempts.
RECURSIVE Envelopes(_)
Envelopes(writes) ==
    IF writes = << >> THEN << >>
    ELSE << Head(writes).msg >> \o Envelopes(Tail(writes))

\* A line typed is the quit command.
IsExitLine(line) == trim(line) = ExitCommand

\* The lines typed before the first quit command.
RECURSIVE BeforeExit(_)
BeforeExit(lines) ==
    IF lines = << >> \/ IsExitLine(Head(lines)) THEN << >>
    ELSE << Head(lines) >> \o BeforeExit(Tail(lines))

\* The Chat envelopes of lines, each with the text of its line (the white
\* space around the text apart).
RECURSIVE Chats(_)
Chats(lines) ==
    IF lines = << >> THEN << >>
    ELSE << Chat(trim(Head(lines))) >> \o Chats(Tail(lines))

\* The session has ended on the quit command and every write went through.
EndedOnExit ==
    /\ pc = "done"
    /\ last = "exit"
    /\ \A i \in 1..Len(sent) : sent[i].ok

\* C12: when the user has typed L1..Ln and then /exit and the session has
\* ended on it, what the client has written after Auth is Chat{L1}, ...,
\* Chat{Ln} in the order typed, each once and whole, and then one Disconnect
\* with reason "Client exit".
C12_ChatsThenClientExit ==
    EndedOnExit =>
        Envelopes(Tail(sent)) = Chats(BeforeExit(typed)) \o << ClientExit >>

\* A step of repl in which a line of the connection is read.
ReadsLine == pc = "repl" /\ Len(seen') = Len(seen) + 1

\* The line read in such a step.
LineRead == seen'[Len(seen')]

\* A line that decodes to an envelope repl has no arm for.
IsOtherLine(line) ==
    /\ line.text = "json"
    /\ line.msg[1].type \in {"AUTH", "AUTH_ACK", "CHAT"}

\* What is written after Auth is written for the user: a line was typed, or
\* the end of the input or the interrupt was handled.
C13_WritesAreTheUsers ==
    Len(sent) > 1 => (typed # << >> \/ last \in {"stdin_eof", "ctrl_c"})

\* Reading a line writes nothing; a Broadcast puts its one line on the
\* screen; an Auth, AuthAck or Chat changes nothing and repl goes on.
C13_ReadOnly ==
    ReadsLine =>
        /\ sent' = sent
        /\ pending' = None
        /\ IsBroadcastLine(LineRead) =>
               /\ display' = Append(display, << "[", LineRead.msg[1].from, "] ",
                                               LineRead.msg[1].message >>)
               /\ pc' = "repl"
        /\ IsOtherLine(LineRead) =>
               /\ display' = display
               /\ pc' = "repl"
               /\ result' = Running
               /\ last' = "none"

\* C13: handling a line of the connection never writes to it: with no
\* line typed, no end of input and no interrupt the client writes nothing
\* after Auth; a Broadcast is shown as one line "[from] message"; an Auth,
\* AuthAck or Chat is passed over, nothing shown or written, repl running.
C13_InboundNeverWrites == [](C13_WritesAreTheUsers) /\ [][C13_ReadOnly]_vars

\* A Chat and a Broadcast of the server have been read, one line is shown.
C13_Witness ==
    /\ pc = "repl"
    /\ typed = << >>
    /\ Len(seen) = 3
    /\ seen[2] = JsonLine(Chat("hi"))
    /\ IsBroadcastLine(seen[3])
    /\ display = << << "[", "Bob", "] ", "hi" >> >>
    /\ Len(sent) = 1

\* The session is over.
Over == pc = "done"

\* A line the user has typed is read in the end.
C14_UserLineHandled == (stdin # << >>) ~> (stdin = << >> \/ Over)

\* The end of the terminal input is handled in the end.
C14_EndOfInputHandled == stdin_eof ~> Over

\* A line of the server is read in the end.
C14_InboundHandled == (pc = "repl" /\ inbound # << >>) ~> (inbound = << >> \/ Over)

\* An interrupt is handled in the end.
C14_InterruptHandled == interrupt ~> Over

\* C14: no source of repl is starved: under fair scheduling of select! a
\* line typed, the end of the input and an interrupt are handled in the end
\* (the quit and the interrupt end the session), whatever the server sends
\* or does not send, and a line of the server is handled in the end
\* whatever the user types.
C14_NoStarvation ==
    /\ C14_UserLineHandled
    /\ C14_EndOfInputHandled
    /\ C14_InboundHandled
    /\ C14_InterruptHandled

\* s is the beginning of t.
IsPrefix(s, t) == Len(s) <= Len(t) /\ s = SubSeq(t, 1, Len(s))

\* A handler is writing exactly when the loop is not in select!.
C15_OneHandler ==
    /\ pending # None <=> pc = "repl_send"
    /\ Len(pending) <= 1

\* While a handler writes, no source is looked at: nothing is read from the
\* connection or from the terminal, nothing is shown, and the only thing the
\* program does is to end that write, well or not.
C15_WriteBeforeNextEvent ==
    pc = "repl_send" =>
        /\ seen' = seen
        /\ display' = display
        /\ pc' = "repl_send" =>
               /\ sent' = sent
               /\ pending' = pending
               /\ IsPrefix(inbound, inbound')
               /\ IsPrefix(stdin, stdin')
        /\ pc' # "repl_send" =>
               /\ pending' = None
               /\ sent' = Append(sent, [msg |-> pending[1].msg,
                                        ok |-> sent'[Len(sent')].ok])
        /\ pc' = "repl" =>
               /\ inbound' = inbound
               /\ stdin' = stdin

\* A step of repl takes one event at most.
C15_OneEventAStep ==
    pc = "repl" =>
        \/ seen' = seen
        \/ (pending' = None /\ (stdin' = stdin \/ pc' = "done"))

\* C15: in repl one event is handled at a time and to its end: no two
\* handlers overlap, and the write a handler makes has ended, well or
\* not, before the loop looks at any of its three sources again.
C15_OneEventAtATime ==
    /\ [](C15_OneHandler)
    /\ [][C15_WriteBeforeNextEvent /\ C15_OneEventAStep]_vars

\* A chat message is being written while a line of the server and a line
\* of the user wait.
C15_Witness ==
    /\ pc = "repl_send"
    /\ pending[1].event = "chat"
    /\ inbound # << >>
    /\ stdin # << >>

\* The run is a reconnect run (no link code on the command line).
Reconnecting == pc # "start" /\ args.link = None

\* A reconnect run leaves the store as it found it and loads it once at
\* most, and has loaded it once when repl runs; a store that differs from
\* the one the run began with was saved by a link that succeeded.
C16_StoreKept ==
    /\ Reconnecting =>
           /\ config = store0
           /\ store_ops \in {<< >>, << "load" >>}
           /\ ReplEntered => store_ops = << "load" >>
    /\ "save" \in {store_ops[i] : i \in 1..Len(store_ops)} =>
           (args.link # None /\ pc = "done" /\ result = Ok)
    /\ config # store0 =>
           (args.link # None /\ pc = "done" /\ result = Ok)

\* repl does not touch the store, and the reconnect flow loads it in its
\* first step only.
C16_ReplLeavesStore ==
    /\ pc \in {"repl", "repl_send"} =>
           (config' = config /\ store_ops' = store_ops)
    /\ (Reconnecting /\ pc # "done" /\ store_ops' # store_ops) =>
           (pc = "handle_connect" /\ config' = config)

\* C16: the identity store is left as it is by the reconnect flow and by
\* the whole of repl: handle_connect loads it once, before the connection
\* is opened; a successful link alone saves it; no step of repl loads or
\* saves it.
C16_StoreOnlyInHandshake == [](C16_StoreKept) /\ [][C16_ReplLeavesStore]_vars

\* A session on a store of two servers has run and ended.
C16_Witness ==
    /\ pc = "done"
    /\ args.link = None
    /\ last = "exit"
    /\ Len(config) = 2
    /\ store_ops = << "load" >>
    /\ Len(sent) = 2

\* The characters are one line: a newline at the end and nowhere else.
IsOneLine(t) ==
    /\ t # << >>
    /\ t[Len(t)] = "\n"
    /\ \A i \in 1..(Len(t) - 1) : t[i] # "\n"

\* C17: for every envelope of the five variants, with newlines in its
\* strings too, what send_message writes is one line, a newline at its end
\* and none within, and from_str of that line gives the envelope back.
C17_RoundTrip ==
    /\ codec.stage \in {"line", "back"} =>
           /\ IsOneLine(codec.line)
           /\ from_json(codec.line) = codec.msg
    /\ codec.stage = "back" => codec.back = codec.msg

\* A Chat with a newline in its message has come back as it was.
C17_Witness ==
    /\ codec.stage = "back"
    /\ codec.msg = Some(Chat(<< "a", "\n", "b" >>))
    /\ codec.back = codec.msg
    /\ Len(codec.line) > Len(Encoded(Chat(<< "a", "b" >>)))

\* The lines that what has arrived of the connection makes up, a text whose
\* newline is still to come counted as its line.
RECURSIVE Frames(_)
Frames(chunks) ==
    IF chunks = << >> THEN << >>
    ELSE IF Terminated(Head(chunks))
    THEN << Head(chunks) >> \o Frames(Tail(chunks))
    ELSE << JsonLine(Head(chunks).msg[1]) >>
         \o Frames(IF Len(chunks) >= 2 /\ chunks[2] = Newline
                   THEN Tail(Tail(chunks))
                   ELSE Tail(chunks))

\* The characters of chunks, one after the other.
RECURSIVE Flatten(_)
Flatten(chunks) ==
    IF chunks = << >> THEN << >> ELSE Head(chunks) \o Flatten(Tail(chunks))

\* The first line of the characters (all of them if no newline is there).
RECURSIVE FirstLine(_)
FirstLine(chars) ==
    IF chars = << >> THEN << >>
    ELSE IF Head(chars) = "\n" THEN << "\n" >>
    ELSE << Head(chars) >> \o FirstLine(Tail(chars))

\* What has come from the server and is not read yet, taken by the pending
\* read_line or still to be taken; and the same of the user.
UnreadFrames == Frames(msg_buffer \o inbound)
UnreadChars == buffer \o Flatten(stdin)

\* The session goes on after the step: no trigger of its end has come.
GoesOn ==
    /\ pc \in {"repl", "repl_send"}
    /\ pc' \in {"repl", "repl_send"}
    /\ pending' = None \/ pending'[1].event = "chat"

\* What has arrived of the server's lines stays until it is read: a step
\* leaves it (the server may add to it) or reads its first line, whole.
C18_InboundKept ==
    GoesOn =>
        \/ IsPrefix(UnreadFrames, UnreadFrames')
        \/ /\ UnreadFrames # << >>
           /\ seen' = Append(seen, Head(UnreadFrames))
           /\ IsPrefix(Tail(UnreadFrames), UnreadFrames')

\* What has arrived of the user's lines stays until it is read: a step
\* leaves it (the user may add to it) or takes its first line, whole, for
\* the Chat envelope it writes next.
C18_TypedKept ==
    GoesOn =>
        \/ IsPrefix(UnreadChars, UnreadChars')
        \/ /\ pending = None
           /\ pending' # None
           /\ pending'[1].msg = Chat(trim(FirstLine(UnreadChars)))
           /\ UnreadChars = FirstLine(UnreadChars) \o UnreadChars'

\* C18: every Broadcast the server sends before the session is told to end
\* is shown once and in the order of arrival, whatever the interleaving of
\* the three sources and also when a line arrives in pieces with a user
\* line or an interrupt ready between them: the part of a line that a
\* read_line has taken, of the server or of the user, is not lost, cut or
\* run into the next line when another branch of select! completes.
C18_NoPartLost ==
    /\ [](C5_ScreenIsValidFrames)
    /\ [][C18_InboundKept /\ C18_TypedKept]_vars

\* The step in which handle_connect hands the stream over to repl.
Handover == pc = "connect_ack" /\ pc' = "repl"

\* The lines among lines that decode to an envelope.
DecodableLines(lines) == SelectSeq(lines, LAMBDA line : from_str(line) # None)

\* At the handover the line read is the AuthAck, and every envelope that
\* the server wrote after it is still to be read, in the order written.
C19_HandoverStep ==
    Handover =>
        /\ inbound # << >>
        /\ seen' = Append(seen, Head(inbound))
        /\ DecodableLines(inbound') = DecodableLines(Tail(inbound))

\* C19: no line of the server is lost where the handshake hands over to
\* repl: all that the server sends after a successful AuthAck, also what
\* arrived together with the AuthAck and is in the buffer of the
\* handshake's reader, is read by repl, in order.
C19_NoFrameLostAtHandover == [][C19_HandoverStep]_vars

\* The entry written last among those of a store for an address.
LastFor(servers, addr) ==
    LET hits == {i \in 1..Len(servers) : servers[i].address = addr}
    IN  servers[CHOOSE i \in hits : \A j \in hits : j <= i]

\* C20: when the store holds several entries for the server address, the
\* reconnect flow takes the one written last: the uuid of the Auth envelope
\* is that of the last entry for the address.
C20_LastWriteWins ==
    (Reconnecting /\ sent # << >>) =>
        sent[1].msg.client_uuid = LastFor(store0, args.server).uuid

\* The same for the entry written first, which is the one find gives.
C20_FirstWriteWins ==
    (Reconnecting /\ sent # << >>) =>
        sent[1].msg.client_uuid = find(store0, args.server)[1].uuid

====
